---------------------------- MODULE Spec2Model ----------------------------
(***************************************************************************)
(* Verification model of the Anti-VPN-List core: the address codec, the    *)
(* range decomposer (rangeToCIDRs), the radix tree (RadixTree), the        *)
(* deduplicator (CIDRProcessor.filterContainedCIDRsRadix) and the range    *)
(* index (IpChecker).                                                      *)
(*                                                                         *)
(* Scale.  JavaScript bitwise operators work on 32-bit integers and an     *)
(* IPv4 address has four 8-bit octets.  The model keeps the four octets    *)
(* and the signed/unsigned behaviour of the bitwise operators but makes an *)
(* octet OctetBits wide, so the bitwise width is IntBits = 4 * OctetBits.  *)
(* Every place where the source says 8, 255 or 32 is written in terms of   *)
(* OctetBits, OctetMax and IntBits.  Arithmetic that JavaScript does on    *)
(* doubles (+, -, **, comparisons) is exact integer arithmetic here.       *)
(*                                                                         *)
(* Text.  A string is a sequence of one-character strings.  An address     *)
(* text is kept as the list of its dot-separated pieces (the result of     *)
(* split(".")), a CIDR text as the address pieces plus the text after the  *)
(* "/" (NoMask when the text holds no "/").                                *)
(***************************************************************************)
EXTENDS Integers, Sequences, FiniteSets, TLC

VARIABLES
    tree,        \* RadixTree: heap of RadixNode, tree[RootId] is this.root
    inserted,    \* ghost: the set of prefixes passed to insert so far
    calls,       \* ghost: the number of insert calls so far
    searchRes,   \* result of the last search call ("none" before any)
    convIn,      \* input of the last codec / decomposer call
    convOut,     \* its result
    cidrMap,     \* CIDRProcessor.cidrMap keys, in insertion order
    result,      \* filterContainedCIDRsRadix result, in emission order
    result2,     \* result of filtering `result` again
    ranges,      \* IpChecker.#ranges
    queryArg,    \* argument of the last isBlocked call
    queryRes,    \* result of the last isBlocked call
    asnSet,      \* CIDRProcessor.asnSet
    asnameSet,   \* CIDRProcessor.asnameSet
    feeds,       \* what became of processUrl(url), per url
    fetchLog,    \* outcomes of the fetch attempts of the call in progress
    written,     \* whether process() has written the output file
    pc           \* position in the build / load / query life cycle

\* The variables of the download script other than cidrMap.
netVars == <<asnSet, asnameSet, feeds, fetchLog, written>>

vars == <<tree, inserted, calls, searchRes, convIn, convOut,
          cidrMap, result, result2, ranges, queryArg, queryRes, netVars, pc>>

-----------------------------------------------------------------------------
(* Bounds and scale *)

OctetBits == 2          \* width of one octet in the model (8 in the source)
MaxLen == 2             \* longest bit-string inserted into a free-standing trie
MaxInserts == 3         \* number of insert calls on a free-standing trie
MaxEntries == 3         \* number of candidate entries in cidrMap
MaxLines == 2           \* number of lines of a file loaded on its own
MaxFeedLines == 1       \* number of lines a response body delivers

IntBits == 4 * OctetBits

RECURSIVE Pow2(_)
Pow2(n) == IF n <= 0 THEN 1 ELSE 2 * Pow2(n - 1)

OctetMax == Pow2(OctetBits) - 1
AddrSpace == 0 .. (Pow2(IntBits) - 1)

-----------------------------------------------------------------------------
(* JavaScript numbers and bitwise operators *)

\* NaN is kept as one integer that no computation of the model can produce
\* (every number the model computes lies within -2^IntBits .. 2^IntBits + 99).
NaN == 0 - Pow2(2 * IntBits)
IsNaN(x) == x = NaN

\* ToInt32 / ToUint32 of the language, at the model's width.
ToUint(x) == IF IsNaN(x) THEN 0 ELSE x % Pow2(IntBits)
ToInt(x) ==
    LET u == ToUint(x)
    IN  IF u >= Pow2(IntBits - 1) THEN u - Pow2(IntBits) ELSE u

\* x << k
Shl(x, k) == ToInt(ToUint(x) * Pow2(k))
\* ~x
BitNot(x) == ToInt(-ToInt(x) - 1)
\* x >>> k
UShr(x, k) == ToUint(x) \div Pow2(k)

RECURSIVE AndBits(_, _, _)
AndBits(a, b, n) ==
    IF n = 0 THEN 0
    ELSE (IF a % 2 = 1 /\ b % 2 = 1 THEN 1 ELSE 0)
         + 2 * AndBits(a \div 2, b \div 2, n - 1)
\* x & y
BitAnd(x, y) == ToInt(AndBits(ToUint(x), ToUint(y), IntBits))

\* a + b, a - b on doubles: NaN is contagious.
Add(a, b) == IF IsNaN(a) \/ IsNaN(b) THEN NaN ELSE a + b
\* a > b, a < b: every comparison with NaN is false.
Gt(a, b) == IF IsNaN(a) \/ IsNaN(b) THEN FALSE ELSE a > b
Lt(a, b) == IF IsNaN(a) \/ IsNaN(b) THEN FALSE ELSE a < b

-----------------------------------------------------------------------------
(* Strings *)

Digits == <<"0", "1", "2", "3", "4", "5", "6", "7", "8", "9">>
IsDigit(c) == \E i \in 1..10 : Digits[i] = c
DigitVal(c) == (CHOOSE i \in 1..10 : Digits[i] = c) - 1

\* s.slice(k) for 0 <= k
SliceFrom(s, k) == IF k >= Len(s) THEN <<>> ELSE SubSeq(s, k + 1, Len(s))
\* s.slice(0, n): NaN counts as 0, a negative n counts from the end.
Slice0(s, n) ==
    LET m == IF IsNaN(n) THEN 0
             ELSE IF n < 0 THEN (IF Len(s) + n < 0 THEN 0 ELSE Len(s) + n)
             ELSE IF n > Len(s) THEN Len(s) ELSE n
    IN  SubSeq(s, 1, m)
\* s.startsWith(k)
StartsWith(s, k) == Len(k) <= Len(s) /\ SubSeq(s, 1, Len(k)) = k

\* The longest run of decimal digits at the start of s.
RECURSIVE DigitRun(_)
DigitRun(s) ==
    IF Len(s) > 0 /\ IsDigit(s[1]) THEN <<s[1]>> \o DigitRun(Tail(s)) ELSE <<>>

RECURSIVE DecimalValue(_)
DecimalValue(s) ==
    IF Len(s) = 0 THEN 0
    ELSE 10 * DecimalValue(SubSeq(s, 1, Len(s) - 1)) + DigitVal(s[Len(s)])

\* parseInt(text) and parseInt(text, 10) on trimmed text without a "0x"
\* prefix: an optional "-", then the leading digits; NaN when there are none.
parseInt(text) ==
    LET neg == Len(text) > 0 /\ text[1] = "-"
        run == DigitRun(IF neg THEN Tail(text) ELSE text)
    IN  IF Len(run) = 0 THEN NaN
        ELSE IF neg THEN 0 - DecimalValue(run) ELSE DecimalValue(run)

\* Number(text): the empty text is 0, a decimal numeral is its value, any
\* other text is NaN.
Number(text) ==
    LET neg == Len(text) > 0 /\ text[1] = "-"
        body == IF neg THEN Tail(text) ELSE text
    IN  IF Len(text) = 0 THEN 0
        ELSE IF Len(body) = 0 \/ DigitRun(body) # body THEN NaN
        ELSE IF neg THEN 0 - DecimalValue(body) ELSE DecimalValue(body)

\* String(n) for an integer n >= 0
RECURSIVE ToDecimal(_)
ToDecimal(n) ==
    IF n < 10 THEN <<Digits[n + 1]>>
    ELSE ToDecimal(n \div 10) \o <<Digits[(n % 10) + 1]>>

\* n.toString(2)
RECURSIVE ToBinaryNat(_)
ToBinaryNat(n) ==
    IF n < 2 THEN <<Digits[n + 1]>>
    ELSE ToBinaryNat(n \div 2) \o <<Digits[(n % 2) + 1]>>
ToBinary(n) ==
    IF IsNaN(n) THEN <<"N", "a", "N">>
    ELSE IF n < 0 THEN <<"-">> \o ToBinaryNat(0 - n)
    ELSE ToBinaryNat(n)

\* s.padStart(n, "0")
RECURSIVE PadStart(_, _)
PadStart(s, n) == IF Len(s) >= n THEN s ELSE PadStart(<<"0">> \o s, n)

RECURSIVE Join(_)
Join(ss) == IF Len(ss) = 0 THEN <<>> ELSE Head(ss) \o Join(Tail(ss))

-----------------------------------------------------------------------------
(* Address codec (iputils) *)

\* The text after the "/" of an entry that has no "/".
NoMask == <<"none">>

\* A CIDR text "a.b.c.d/n" after split("/"), pieces after split(".").
Cidr(ip, mask) == [ip |-> ip, mask |-> mask]
\* cidr.includes("/")
IsCidr(cidr) == cidr.mask # NoMask

\* ipToNumber: reduce((acc, octet) => (acc << 8) + parseInt(octet), 0)
RECURSIVE IpReduce(_, _)
IpReduce(acc, pieces) ==
    IF Len(pieces) = 0 THEN acc
    ELSE IpReduce(Add(Shl(acc, OctetBits), parseInt(Head(pieces))),
                  Tail(pieces))
ipToNumber(ip) == IpReduce(0, ip)

\* numberToIp with the first octet taken by the signed shift num >> 24 and
\* not masked.
numberToIpSignedShift(num) ==
    LET top == ToInt(num) \div Pow2(3 * OctetBits)
    IN  << IF top < 0 THEN <<"-">> \o ToDecimal(0 - top) ELSE ToDecimal(top),
           ToDecimal(BitAnd(UShr(num, 2 * OctetBits), OctetMax)),
           ToDecimal(BitAnd(UShr(num, OctetBits), OctetMax)),
           ToDecimal(BitAnd(num, OctetMax)) >>

\* numberToIp
numberToIp(num) ==
    << ToDecimal(BitAnd(UShr(num, 3 * OctetBits), OctetMax)),
       ToDecimal(BitAnd(UShr(num, 2 * OctetBits), OctetMax)),
       ToDecimal(BitAnd(UShr(num, OctetBits), OctetMax)),
       ToDecimal(BitAnd(num, OctetMax)) >>

\* ipToBinary
ipToBinary(ip) ==
    Join([i \in 1..Len(ip) |-> PadStart(ToBinary(parseInt(ip[i])), OctetBits)])

\* cidrToBinaryPrefix
cidrToBinaryPrefix(cidr) == Slice0(ipToBinary(cidr.ip), parseInt(cidr.mask))

\* cidrToRange.  For a prefix above IntBits, 2 ** maskBits is a fraction f
\* with 0 < f < 1: ~(f - 1) is -1 and end = start + f - 1 lies strictly
\* between start - 1 and start; it is kept as start - 1, which compares the
\* same with every integer.
cidrToRange(cidr) ==
    LET ipNum == ipToNumber(cidr.ip)
        prefix == Number(cidr.mask)
        maskBits == IF IsNaN(prefix) THEN NaN ELSE IntBits - prefix
        start == IF IsNaN(maskBits) \/ maskBits < 0
                 THEN BitAnd(ipNum, 0 - 1)
                 ELSE BitAnd(ipNum, BitNot(Pow2(maskBits) - 1))
        end == IF IsNaN(maskBits) THEN NaN
               ELSE IF maskBits < 0 THEN start - 1
               ELSE start + Pow2(maskBits) - 1
    IN  <<start, end>>

\* The inner loop with the end test written `broadcast >= end`.
RECURSIVE FindMaxSizeStrict(_, _, _)
FindMaxSizeStrict(start, end, maxSize) ==
    IF maxSize > 0
    THEN LET mask == UShr(BitNot(Pow2(IntBits - maxSize) - 1), 0)
             maskedBase == BitAnd(start, mask)
             broadcast == start + Pow2(IntBits - maxSize) - 1
         IN  IF maskedBase # start THEN maxSize
             ELSE IF broadcast >= end THEN maxSize
             ELSE FindMaxSizeStrict(start, end, maxSize - 1)
    ELSE maxSize

\* The inner while loop of rangeToCIDRs: the value of maxSize when it ends.
RECURSIVE FindMaxSize(_, _, _)
FindMaxSize(start, end, maxSize) ==
    IF maxSize > 0
    THEN LET mask == UShr(BitNot(Pow2(IntBits - maxSize) - 1), 0)
             maskedBase == BitAnd(start, mask)
             broadcast == start + Pow2(IntBits - maxSize) - 1
         IN  IF maskedBase # start THEN maxSize
             ELSE IF broadcast > end THEN maxSize
             ELSE FindMaxSize(start, end, maxSize - 1)
    ELSE maxSize

\* start += 2 ** (32 - maxSize) kept inside the signed 32-bit integers, as
\* (start + 2 ** (32 - maxSize)) | 0 would.
NextStartWrapped(start, maxSize) == ToInt(start + Pow2(IntBits - maxSize))

\* start += 2 ** (32 - maxSize), on doubles.
NextStart(start, maxSize) == start + Pow2(IntBits - maxSize)

\* The outer while loop of rangeToCIDRs (start, end inside the integer
\* range of the bitwise operators, as ipToNumber returns them for addresses).
RECURSIVE CidrLoop(_, _, _)
CidrLoop(start, end, cidrs) ==
    IF start <= end
    THEN LET maxSize == FindMaxSize(start, end, IntBits) + 1
         IN  CidrLoop(NextStart(start, maxSize), end,
                      Append(cidrs, Cidr(numberToIp(start), ToDecimal(maxSize))))
    ELSE cidrs

\* rangeToCIDRs: the Error of line 235 or the list of blocks.
rangeToCIDRs(startIP, endIP) ==
    LET start == ipToNumber(startIP)
        end == ipToNumber(endIP)
    IN  IF Gt(start, end)
        THEN [threw |-> TRUE, cidrs |-> <<>>]
        ELSE IF IsNaN(start) \/ IsNaN(end)
        THEN [threw |-> FALSE, cidrs |-> <<>>]
        ELSE [threw |-> FALSE, cidrs |-> CidrLoop(start, end, <<>>)]

-----------------------------------------------------------------------------
(* RadixNode / RadixTree *)

RootId == 1

\* new RadixNode(value)
RadixNode(value) == [value |-> value, children |-> <<>>, isEnd |-> FALSE]

\* new RadixTree()
EmptyTree == <<RadixNode(<<>>)>>

\* RadixTree._commonPrefixLength
RECURSIVE CommonPrefixLengthFrom(_, _, _)
CommonPrefixLengthFrom(str1, str2, i) ==
    IF i < Len(str1) /\ i < Len(str2) /\ str1[i + 1] = str2[i + 1]
    THEN CommonPrefixLengthFrom(str1, str2, i + 1)
    ELSE i
commonPrefixLength(str1, str2) == CommonPrefixLengthFrom(str1, str2, 0)

\* Map.prototype.set on a Map kept as the list of its entries in insertion
\* order: an existing key keeps its place, a new key goes last.
MapSet(m, key, id) ==
    IF \E i \in 1..Len(m) : m[i].key = key
    THEN [i \in 1..Len(m) |->
            IF m[i].key = key THEN [key |-> key, node |-> id] ELSE m[i]]
    ELSE Append(m, [key |-> key, node |-> id])

\* The first entry of node.children.entries() whose key shares a nonempty
\* common prefix with `prefix` (0 when the for loop ends without a break).
FirstCommon(m, prefix) ==
    LET hits == {i \in 1..Len(m) : commonPrefixLength(prefix, m[i].key) > 0}
    IN  IF hits = {} THEN 0 ELSE CHOOSE i \in hits : \A j \in hits : i <= j

\* The split of lines 39-47: the old child keeps its identity and its place
\* in the parent's map (under the old key), takes the common prefix as value
\* and gets one child, a new node that inherits its children and flag.
SplitChild(t, child, commonPrefix, remainingKey) ==
    LET newId == Len(t) + 1
        newChild == [value |-> remainingKey,
                     children |-> t[child].children,
                     isEnd |-> t[child].isEnd]
    IN  Append([t EXCEPT ![child] =
                    [value |-> commonPrefix,
                     children |-> <<[key |-> remainingKey, node |-> newId]>>,
                     isEnd |-> FALSE]],
               newChild)

\* The while loop of RadixTree.insert, from `node` with `prefix` left.
RECURSIVE InsertLoop(_, _, _)
InsertLoop(t, node, prefix) ==
    IF Len(prefix) = 0
    THEN [t EXCEPT ![node].isEnd = TRUE]
    ELSE LET i == FirstCommon(t[node].children, prefix)
         IN  IF i = 0
             THEN LET newId == Len(t) + 1
                      newNode == [RadixNode(prefix) EXCEPT !.isEnd = TRUE]
                  IN  Append([t EXCEPT ![node].children =
                                  MapSet(@, prefix, newId)],
                             newNode)
             ELSE LET key == t[node].children[i].key
                      child == t[node].children[i].node
                      n == commonPrefixLength(prefix, key)
                      commonPrefix == SubSeq(prefix, 1, n)
                      remainingPrefix == SliceFrom(prefix, n)
                      remainingKey == SliceFrom(key, n)
                      t2 == IF Len(remainingKey) > 0
                            THEN SplitChild(t, child, commonPrefix, remainingKey)
                            ELSE t
                  IN  InsertLoop(t2, child, remainingPrefix)

\* RadixTree.insert
insert(t, prefix) == InsertLoop(t, RootId, prefix)

\* The first entry of node.children.entries() whose key the string starts with.
FirstStartsWith(m, binaryIP) ==
    LET hits == {i \in 1..Len(m) : StartsWith(binaryIP, m[i].key)}
    IN  IF hits = {} THEN 0 ELSE CHOOSE i \in hits : \A j \in hits : i <= j

\* The while loop of RadixTree.search.
RECURSIVE SearchLoop(_, _, _)
SearchLoop(t, node, binaryIP) ==
    IF Len(binaryIP) = 0
    THEN t[node].isEnd
    ELSE LET i == FirstStartsWith(t[node].children, binaryIP)
         IN  IF i = 0
             THEN t[node].isEnd
             ELSE LET key == t[node].children[i].key
                      child == t[node].children[i].node
                  IN  IF t[child].isEnd
                      THEN TRUE
                      ELSE SearchLoop(t, child, SliceFrom(binaryIP, Len(key)))

\* A search that follows an edge as soon as it shares a leading bit with the
\* string (the test insert uses) instead of requiring startsWith(key).
RECURSIVE SearchLoopPartial(_, _, _)
SearchLoopPartial(t, node, binaryIP) ==
    IF Len(binaryIP) = 0
    THEN t[node].isEnd
    ELSE LET i == FirstCommon(t[node].children, binaryIP)
         IN  IF i = 0
             THEN t[node].isEnd
             ELSE LET key == t[node].children[i].key
                      child == t[node].children[i].node
                  IN  IF t[child].isEnd
                      THEN TRUE
                      ELSE SearchLoopPartial(t, child,
                                             SliceFrom(binaryIP, Len(key)))
searchPartialMatch(t, binaryIP) == SearchLoopPartial(t, RootId, binaryIP)

\* RadixTree.search
search(t, binaryIP) == SearchLoop(t, RootId, binaryIP)

-----------------------------------------------------------------------------
(* CIDRProcessor.filterContainedCIDRsRadix *)

\* The comparator written without the equal case (`lenA < lenB ? -1 : 1`).
CompareCidrsNoTie(a, b) ==
    IF IsCidr(a) /\ IsCidr(b)
    THEN LET lenA == parseInt(a.mask)
             lenB == parseInt(b.mask)
         IN  IF Lt(lenA, lenB) THEN 0 - 1 ELSE 1
    ELSE IF IsCidr(a) THEN 0 - 1
    ELSE 1

\* The comparator written with a bare address taken as a block of full
\* prefix length (`lenA - lenB` in every case).
CompareCidrsByLength(a, b) ==
    LET lenA == IF IsCidr(a) THEN parseInt(a.mask) ELSE IntBits
        lenB == IF IsCidr(b) THEN parseInt(b.mask) ELSE IntBits
    IN  IF IsNaN(lenA) \/ IsNaN(lenB) THEN 0 ELSE lenA - lenB

\* The sort comparator of lines 500-514 (a NaN result counts as 0).
CompareCidrs(a, b) ==
    IF IsCidr(a) /\ IsCidr(b)
    THEN LET lenA == parseInt(a.mask)
             lenB == parseInt(b.mask)
         IN  IF IsNaN(lenA) \/ IsNaN(lenB) THEN 0 ELSE lenA - lenB
    ELSE IF IsCidr(a) THEN 0 - 1
    ELSE IF IsCidr(b) THEN 1
    ELSE 0

\* The sort comparator of load, line 27.
CompareRanges(a, b) == a[1] - b[1]

\* The comparator a sort call was given.
Compare(which, a, b) ==
    IF which = "cidrs" THEN CompareCidrs(a, b) ELSE CompareRanges(a, b)

\* Array.prototype.sort is stable: x goes after the last element that does
\* not compare greater than it.
RECURSIVE InsertSorted(_, _, _)
InsertSorted(sorted, x, which) ==
    IF Len(sorted) = 0 THEN <<x>>
    ELSE IF Compare(which, sorted[Len(sorted)], x) <= 0 THEN Append(sorted, x)
    ELSE Append(InsertSorted(SubSeq(sorted, 1, Len(sorted) - 1), x, which),
                sorted[Len(sorted)])

RECURSIVE StableSort(_, _)
StableSort(seq, which) ==
    IF Len(seq) = 0 THEN <<>>
    ELSE InsertSorted(StableSort(SubSeq(seq, 1, Len(seq) - 1), which),
                      seq[Len(seq)], which)

\* Lines 521-523
binaryPrefixOf(cidr) ==
    IF IsCidr(cidr) THEN cidrToBinaryPrefix(cidr) ELSE ipToBinary(cidr.ip)

\* The for loop of lines 519-540: search, then keep and insert.
RECURSIVE FilterLoop(_, _, _, _)
FilterLoop(cidrs, i, t, res) ==
    IF i > Len(cidrs) THEN res
    ELSE LET binaryPrefix == binaryPrefixOf(cidrs[i])
         IN  IF ~search(t, binaryPrefix)
             THEN FilterLoop(cidrs, i + 1, insert(t, binaryPrefix),
                             Append(res, cidrs[i]))
             ELSE FilterLoop(cidrs, i + 1, t, res)

\* filterContainedCIDRsRadix on the keys of cidrMap (distinct, in insertion
\* order); the returned Set keeps the order of `result`.
filterContainedCIDRsRadix(keys) ==
    FilterLoop(StableSort(keys, "cidrs"), 1, EmptyTree, <<>>)

-----------------------------------------------------------------------------
(* IpChecker *)

\* The empty line: "" has no "/" and splits on "." into one empty piece.
EmptyLine == Cidr(<<<<>>>>, NoMask)

\* The lines IpChecker.load reads back: writeFile joins the entries with
\* "\n" and split("\n") cuts them apart again; the file written from no
\* entry is "", which splits into one empty line.
FileLines(entries) == IF Len(entries) = 0 THEN <<EmptyLine>> ELSE entries

\* "/32" appended to a line without "/" (line 24 of load).
WithMask(line) ==
    IF IsCidr(line) THEN line ELSE Cidr(line.ip, ToDecimal(IntBits))

\* load without its filter(Boolean): the empty line becomes "/32".
loadNoFilter(lines) ==
    LET cidrs == [i \in 1..Len(lines) |-> WithMask(lines[i])]
    IN  StableSort([i \in 1..Len(cidrs) |-> cidrToRange(cidrs[i])],
                   "ranges")

\* Lines 20-27 of load: the empty lines are dropped, a bare address gets
\* "/32", every line goes through cidrToRange, the ranges are sorted by
\* start.
load(lines) ==
    LET kept == SelectSeq(lines, LAMBDA line : line # EmptyLine)
        cidrs == [i \in 1..Len(kept) |-> WithMask(kept[i])]
    IN  StableSort([i \in 1..Len(cidrs) |-> cidrToRange(cidrs[i])],
                   "ranges")

\* An argument of isBlocked: a string or a number.
StringArg(ip) == [kind |-> "string", text |-> ip, num |-> 0]
NumberArg(n) == [kind |-> "number", text |-> <<>>, num |-> n]

\* The while loop of isBlocked; left and right are the 0-based indices of
\* the code.
RECURSIVE BinarySearch(_, _, _, _)
BinarySearch(rs, ipNum, left, right) ==
    IF left <= right
    THEN LET mid == (left + right) \div 2
             start == rs[mid + 1][1]
             end == rs[mid + 1][2]
         IN  IF Lt(ipNum, start) THEN BinarySearch(rs, ipNum, left, mid - 1)
             ELSE IF Gt(ipNum, end) THEN BinarySearch(rs, ipNum, mid + 1, right)
             ELSE TRUE
    ELSE FALSE

\* IpChecker.isBlocked
isBlocked(rs, ip) ==
    LET ipNum == IF ip.kind = "string" THEN ipToNumber(ip.text) ELSE ip.num
    IN  BinarySearch(rs, ipNum, 0, Len(rs) - 1)

-----------------------------------------------------------------------------
(* Bit-strings *)

Bit == {"0", "1"}

RECURSIVE BitStringsOfLen(_)
BitStringsOfLen(n) ==
    IF n = 0 THEN {<<>>}
    ELSE {Append(s, b) : s \in BitStringsOfLen(n - 1), b \in Bit}

BitStringsUpTo(n) == UNION {BitStringsOfLen(k) : k \in 0..n}

\* The prefixes handed to insert and the strings handed to search (the
\* latter one bit longer, so that every inserted prefix has extensions).
InsertStrings == BitStringsUpTo(MaxLen)
SearchStrings == BitStringsUpTo(MaxLen + 1)

-----------------------------------------------------------------------------
(* Specification SpecTrie: a RadixTree under arbitrary insert / search calls *)

TrieIdle ==
    /\ tree = EmptyTree
    /\ inserted = {}
    /\ calls = 0
    /\ searchRes = "none"

\* The download script has not run: the sets of the constructor, nothing
\* fetched, nothing written.
NetIdle ==
    /\ asnSet = {}
    /\ asnameSet = {}
    /\ feeds = {}
    /\ fetchLog = <<>>
    /\ written = FALSE

CodecIdle ==
    /\ convIn = <<>>
    /\ convOut = <<>>

BuildIdle ==
    /\ cidrMap = <<>>
    /\ result = <<>>
    /\ result2 = <<>>
    /\ ranges = <<>>
    /\ queryArg = NumberArg(0)
    /\ queryRes = FALSE

InitTrie == TrieIdle /\ NetIdle /\ CodecIdle /\ BuildIdle /\ pc = "trie"

\* tree.insert(prefix)
Insert(prefix) ==
    /\ pc = "trie"
    /\ calls < MaxInserts
    /\ tree' = insert(tree, prefix)
    /\ inserted' = inserted \cup {prefix}
    /\ calls' = calls + 1
    /\ searchRes' = "none"
    /\ UNCHANGED netVars
    /\ UNCHANGED <<convIn, convOut, cidrMap, result, result2, ranges,
                   queryArg, queryRes, pc>>

\* tree.search(binaryIP)
Search(binaryIP) ==
    /\ pc = "trie"
    /\ searchRes' = IF search(tree, binaryIP) THEN "true" ELSE "false"
    /\ UNCHANGED netVars
    /\ UNCHANGED <<tree, inserted, calls, convIn, convOut, cidrMap, result,
                   result2, ranges, queryArg, queryRes, pc>>

NextTrie ==
    \/ \E prefix \in InsertStrings : Insert(prefix)
    \/ \E binaryIP \in SearchStrings : Search(binaryIP)

SpecTrie == InitTrie /\ [][NextTrie]_vars

-----------------------------------------------------------------------------
(* Claims about the RadixTree (specification SpecTrie) *)

\* S is covered: some inserted prefix equals S or is a prefix of S.
Covered(S) == \E P \in inserted : StartsWith(S, P)

\* Some node was split: a child sits in its parent's map under a key that is
\* no longer its value.
HasSplitNode ==
    \E n \in 1..Len(tree) : \E i \in 1..Len(tree[n].children) :
        tree[n].children[i].key # tree[tree[n].children[i].node].value

\* C3: after any sequence of insert calls, search(S) is true for every
\* bit-string S that equals an inserted prefix or starts with one.
Claim_C3 ==
    pc = "trie" =>
        \A S \in SearchStrings : Covered(S) => search(tree, S)

\* C4: after any sequence of insert calls, search(S) is false for every
\* bit-string S that no inserted prefix is a prefix of.
Thm_C4 ==
    pc = "trie" =>
        \A S \in SearchStrings : ~Covered(S) => ~search(tree, S)

\* C4 witness: a trie with a split node, and an uncovered proper prefix of an
\* inserted string on which search answers false.
Wit_C4 ==
    /\ pc = "trie"
    /\ HasSplitNode
    /\ searchRes = "false"
    /\ \E P \in inserted : \E S \in SearchStrings :
          /\ S # P
          /\ StartsWith(P, S)
          /\ ~Covered(S)
          /\ ~search(tree, S)

\* C10: inserting a prefix that was inserted before leaves the trie and the
\* result of every search unchanged.
Claim_C10 ==
    [][(pc = "trie" /\ calls' = calls + 1 /\ inserted' = inserted) =>
          /\ tree' = tree
          /\ \A S \in SearchStrings : search(tree', S) = search(tree, S)]_vars

-----------------------------------------------------------------------------
(* Specification SpecParse: one call of ipToNumber or ipToBinary on a text *)

OctetPool == {0, 1, Pow2(OctetBits - 1), OctetMax}

\* Pieces an address text is made of: octets in range, an octet with a
\* leading zero, an octet above OctetMax, a non-numeric piece, digits
\* followed by a letter, an empty piece.
PiecePool ==
    {ToDecimal(o) : o \in {0, 1, OctetMax}}
        \cup {<<"0", "1">>, ToDecimal(OctetMax + 1), <<"z">>, <<"1", "z">>,
              <<>>}

ParseTexts == UNION {[1..n -> PiecePool] : n \in 3..5}

InitParse ==
    /\ TrieIdle /\ NetIdle /\ BuildIdle
    /\ convIn \in ParseTexts
    /\ convOut = <<>>
    /\ pc = "parse"

\* ipToNumber(convIn): the function has no throw statement and split, reduce
\* and parseInt do not throw on a string.
IpToNumber ==
    /\ pc = "parse"
    /\ convOut' = [threw |-> FALSE, value |-> ipToNumber(convIn)]
    /\ pc' = "ipToNumberDone"
    /\ UNCHANGED netVars
    /\ UNCHANGED <<tree, inserted, calls, searchRes, convIn, cidrMap, result,
                   result2, ranges, queryArg, queryRes>>

\* ipToBinary(convIn)
IpToBinary ==
    /\ pc = "parse"
    /\ convOut' = [threw |-> FALSE, value |-> ipToBinary(convIn)]
    /\ pc' = "ipToBinaryDone"
    /\ UNCHANGED netVars
    /\ UNCHANGED <<tree, inserted, calls, searchRes, convIn, cidrMap, result,
                   result2, ranges, queryArg, queryRes>>

\* numberToIp(ipToNumber(convIn))
RoundTrip ==
    /\ pc = "parse"
    /\ convOut' = [threw |-> FALSE, value |-> numberToIp(ipToNumber(convIn))]
    /\ pc' = "roundTripDone"
    /\ UNCHANGED netVars
    /\ UNCHANGED <<tree, inserted, calls, searchRes, convIn, cidrMap, result,
                   result2, ranges, queryArg, queryRes>>

NextParse == IpToNumber \/ IpToBinary \/ RoundTrip

SpecParse == InitParse /\ [][NextParse]_vars

-----------------------------------------------------------------------------
(* Specification SpecRange: one call of rangeToCIDRs on two addresses *)

\* Dotted-quad address texts: the first octet (it holds the sign bit of the
\* bitwise operators) from OctetPool, the others 0, 1 or OctetMax.
AddressTexts ==
    {<<ToDecimal(a), ToDecimal(b), ToDecimal(c), ToDecimal(d)>> :
        a \in OctetPool, b \in {0, 1, OctetMax}, c \in {0, 1, OctetMax},
        d \in {0, 1, OctetMax}}

InitRange ==
    /\ TrieIdle /\ NetIdle /\ BuildIdle
    /\ convIn \in AddressTexts \X AddressTexts
    /\ convOut = <<>>
    /\ pc = "range"

\* rangeToCIDRs(startIP, endIP)
RangeToCIDRs ==
    /\ pc = "range"
    /\ convOut' = rangeToCIDRs(convIn[1], convIn[2])
    /\ pc' = "rangeDone"
    /\ UNCHANGED netVars
    /\ UNCHANGED <<tree, inserted, calls, searchRes, convIn, cidrMap, result,
                   result2, ranges, queryArg, queryRes>>

NextRange == RangeToCIDRs

SpecRange == InitRange /\ [][NextRange]_vars

-----------------------------------------------------------------------------
(* Specification SpecBuild: entries are collected, filtered, written,      *)
(* loaded into an IpChecker and queried                                    *)

Quad(a, b, c, d) == <<ToDecimal(a), ToDecimal(b), ToDecimal(c), ToDecimal(d)>>

\* Candidate lines of the feeds: the whole space, its halves, sibling
\* blocks, blocks nested in them, bare addresses inside and outside them, a
\* block written with host bits set, an explicit full-length prefix.
EntryPool ==
    { Cidr(Quad(0, 0, 0, 0), <<"0">>),
      Cidr(Quad(0, 0, 0, 0), <<"1">>),
      Cidr(Quad(2, 0, 0, 0), <<"1">>),
      Cidr(Quad(3, 0, 0, 0), <<"2">>),
      Cidr(Quad(0, 2, 0, 0), <<"4">>),
      Cidr(Quad(0, 2, 0, 0), <<"6">>),
      Cidr(Quad(0, 2, 1, 0), <<"6">>),
      Cidr(Quad(0, 2, 1, 1), <<"6">>),
      Cidr(Quad(0, 3, 0, 0), <<"6">>),
      Cidr(Quad(0, 2, 1, 1), ToDecimal(IntBits)),
      Cidr(Quad(0, 2, 0, 1), NoMask),
      Cidr(Quad(0, 2, 1, 1), NoMask),
      Cidr(Quad(3, 3, 3, 3), NoMask) }

\* Arguments of the isBlocked calls that are taken as steps.
QueryPool ==
    {StringArg(Quad(0, 2, 0, 1)), StringArg(Quad(3, 3, 3, 3)),
     NumberArg(Pow2(IntBits - 3) + 1), NumberArg(Pow2(IntBits) - 1)}

InitBuild ==
    /\ TrieIdle /\ NetIdle /\ CodecIdle
    /\ cidrMap = <<>>
    /\ result = <<>>
    /\ result2 = <<>>
    /\ ranges = <<>>
    /\ queryArg = NumberArg(0)
    /\ queryRes = FALSE
    /\ pc = "ingest"

\* this.cidrMap.set(trimmedLine, true), line 471: a key that is present
\* keeps its place.
AddEntry(line) ==
    /\ pc = "ingest"
    /\ Len(cidrMap) < MaxEntries
    /\ cidrMap' = IF \E i \in 1..Len(cidrMap) : cidrMap[i] = line
                  THEN cidrMap ELSE Append(cidrMap, line)
    /\ UNCHANGED netVars
    /\ UNCHANGED <<tree, inserted, calls, searchRes, convIn, convOut, result,
                   result2, ranges, queryArg, queryRes, pc>>

\* process(), lines 570-571: filter and write the file.
Filter ==
    /\ pc = "ingest"
    /\ result' = filterContainedCIDRsRadix(cidrMap)
    /\ pc' = "filtered"
    /\ UNCHANGED netVars
    /\ UNCHANGED <<tree, inserted, calls, searchRes, convIn, convOut, cidrMap,
                   result2, ranges, queryArg, queryRes>>

\* A second build whose candidate collection is the written set in its
\* emission order.
Refilter ==
    /\ pc = "filtered"
    /\ result2' = filterContainedCIDRsRadix(result)
    /\ pc' = "refiltered"
    /\ UNCHANGED netVars
    /\ UNCHANGED <<tree, inserted, calls, searchRes, convIn, convOut, cidrMap,
                   result, ranges, queryArg, queryRes>>

\* IpChecker.load on the written file.
Load ==
    /\ pc = "filtered"
    /\ ranges' = load(FileLines(result))
    /\ pc' = "loaded"
    /\ UNCHANGED netVars
    /\ UNCHANGED <<tree, inserted, calls, searchRes, convIn, convOut, cidrMap,
                   result, result2, queryArg, queryRes>>

\* IpChecker.load on the candidate collection as it stands: the set of a
\* caller that inserts every candidate without the search.
LoadCandidates ==
    /\ pc = "ingest"
    /\ ranges' = load(FileLines(cidrMap))
    /\ pc' = "loadedRaw"
    /\ UNCHANGED netVars
    /\ UNCHANGED <<tree, inserted, calls, searchRes, convIn, convOut, cidrMap,
                   result, result2, queryArg, queryRes>>

\* IpChecker.isBlocked(ip)
IsBlocked(ip) ==
    /\ pc \in {"loaded", "queried"}
    /\ queryArg' = ip
    /\ queryRes' = isBlocked(ranges, ip)
    /\ pc' = "queried"
    /\ UNCHANGED netVars
    /\ UNCHANGED <<tree, inserted, calls, searchRes, convIn, convOut, cidrMap,
                   result, result2, ranges>>

NextBuild ==
    \/ \E line \in EntryPool : AddEntry(line)
    \/ Filter
    \/ Refilter
    \/ Load
    \/ LoadCandidates
    \/ \E ip \in QueryPool : IsBlocked(ip)

SpecBuild == InitBuild /\ [][NextBuild]_vars

-----------------------------------------------------------------------------
(* What the texts denote (the data model of the specification document) *)

\* A decimal octet in 0..OctetMax.
IsOctetText(piece) ==
    /\ Len(piece) > 0
    /\ \A i \in 1..Len(piece) : IsDigit(piece[i])
    /\ DecimalValue(piece) <= OctetMax

\* Exactly four dot-separated decimal octets.
IsAddressText(ip) == Len(ip) = 4 /\ \A i \in 1..4 : IsOctetText(ip[i])

\* The unsigned value a*2^24 + b*2^16 + c*2^8 + d of an address text.
AddrValue(ip) ==
    DecimalValue(ip[1]) * Pow2(3 * OctetBits)
        + DecimalValue(ip[2]) * Pow2(2 * OctetBits)
        + DecimalValue(ip[3]) * Pow2(OctetBits)
        + DecimalValue(ip[4])

\* Prefix length of an entry, a bare address counting as IntBits.
PrefixLen(cidr) == IF IsCidr(cidr) THEN DecimalValue(cidr.mask) ELSE IntBits

\* Base of the block: the address with its low IntBits - n bits cleared.
BlockBase(cidr) ==
    LET size == Pow2(IntBits - PrefixLen(cidr))
    IN  (AddrValue(cidr.ip) \div size) * size

\* The inclusive range [base, base + 2^(IntBits - n) - 1] of an entry.
BlockSet(cidr) ==
    BlockBase(cidr) .. (BlockBase(cidr) + Pow2(IntBits - PrefixLen(cidr)) - 1)

-----------------------------------------------------------------------------
(* Claims about rangeToCIDRs (specification SpecRange) *)

RangeStart == AddrValue(convIn[1])
RangeEnd == AddrValue(convIn[2])
Emitted == convOut.cidrs

\* C5: for start <= end (unsigned), rangeToCIDRs returns without error blocks
\* that are pairwise disjoint and whose union is exactly start..end.
Claim_C5 ==
    (pc = "rangeDone" /\ RangeStart <= RangeEnd) =>
        /\ ~convOut.threw
        /\ \A i, j \in 1..Len(Emitted) :
              i # j => BlockSet(Emitted[i]) \cap BlockSet(Emitted[j]) = {}
        /\ UNION {BlockSet(Emitted[i]) : i \in 1..Len(Emitted)}
              = RangeStart..RangeEnd

\* Two blocks of the same prefix length n > 0 whose union is one aligned
\* block of prefix length n - 1.
Mergeable(c1, c2) ==
    LET n == PrefixLen(c1)
    IN  /\ n = PrefixLen(c2)
        /\ n > 0
        /\ BlockBase(c1) # BlockBase(c2)
        /\ BlockBase(c1) \div Pow2(IntBits - n + 1)
              = BlockBase(c2) \div Pow2(IntBits - n + 1)

\* The block is the largest aligned block that starts at its base and does
\* not exceed `last`.
LargestAt(cidr, last) ==
    /\ AddrValue(cidr.ip) = BlockBase(cidr)
    /\ BlockBase(cidr) + Pow2(IntBits - PrefixLen(cidr)) - 1 <= last
    /\ \A n \in 0..(PrefixLen(cidr) - 1) :
          \/ BlockBase(cidr) % Pow2(IntBits - n) # 0
          \/ BlockBase(cidr) + Pow2(IntBits - n) - 1 > last

\* C6: for every range (start <= end) on which rangeToCIDRs produces output,
\* no two consecutive emitted blocks are mergeable into one aligned block,
\* and every emitted block is the largest aligned block at its start that
\* does not exceed end.
Thm_C6 ==
    (pc = "rangeDone" /\ RangeStart <= RangeEnd /\ ~convOut.threw) =>
        /\ \A i \in 1..(Len(Emitted) - 1) :
              ~Mergeable(Emitted[i], Emitted[i + 1])
        /\ \A i \in 1..Len(Emitted) : LargestAt(Emitted[i], RangeEnd)

\* C6 witness: a range that needs blocks of several sizes, both growing and
\* shrinking, was decomposed.
Wit_C6 ==
    /\ pc = "rangeDone"
    /\ RangeStart <= RangeEnd
    /\ ~convOut.threw
    /\ Len(Emitted) >= 4
    /\ \E i \in 1..(Len(Emitted) - 1) :
          PrefixLen(Emitted[i]) > PrefixLen(Emitted[i + 1])
    /\ \E i \in 1..(Len(Emitted) - 1) :
          PrefixLen(Emitted[i]) < PrefixLen(Emitted[i + 1])

\* C8: rangeToCIDRs fails, emitting no block, exactly when start > end as
\* unsigned values.
Claim_C8 ==
    pc = "rangeDone" =>
        /\ convOut.threw <=> (RangeStart > RangeEnd)
        /\ convOut.threw => Emitted = <<>>

-----------------------------------------------------------------------------
(* Claims about address parsing (specification SpecParse) *)

\* C9: ipToNumber fails for every text that is not exactly four decimal
\* octets in range; it never returns a number for such a text.
Claim_C9 ==
    (pc = "ipToNumberDone" /\ ~IsAddressText(convIn)) => convOut.threw

-----------------------------------------------------------------------------
(* Claims about the deduplicator and the index (specification SpecBuild) *)

\* The dotted-quad text of an address.
TextOf(a) ==
    Quad(a \div Pow2(3 * OctetBits),
         (a \div Pow2(2 * OctetBits)) % Pow2(OctetBits),
         (a \div Pow2(OctetBits)) % Pow2(OctetBits),
         a % Pow2(OctetBits))

\* The addresses covered by a list of entries.
CoveredBy(entries) == UNION {BlockSet(entries[i]) : i \in 1..Len(entries)}

Built == pc \in {"loaded", "queried"}

\* C1: once the deduplicated set is loaded, isBlocked(a) is true exactly for
\* the addresses a inside the range of some entry of the deduplicated set.
Claim_C1 ==
    Built =>
        \A a \in AddrSpace :
            isBlocked(ranges, StringArg(TextOf(a))) <=> a \in CoveredBy(result)

\* C2: the deduplicated set holds no two distinct entries with the range of
\* one contained in the range of the other.
Claim_C2 ==
    pc # "ingest" =>
        \A i, j \in 1..Len(result) :
            i # j => ~(BlockSet(result[i]) \subseteq BlockSet(result[j]))

\* C7: filtering the returned set again, in its emission order, returns the
\* same set.
Thm_C7 ==
    pc = "refiltered" =>
        {result2[i] : i \in 1..Len(result2)} = {result[i] : i \in 1..Len(result)}

\* C7 witness: a set from which the first run discarded an entry was
\* filtered a second time.
Wit_C7 ==
    /\ pc = "refiltered"
    /\ Len(result) >= 2
    /\ Len(result) < Len(cidrMap)
    /\ Len(result2) = Len(result)

\* C11: after the index has loaded the deduplicator's output, its range
\* list is in ascending order of start and no two of its ranges share an
\* address (each range ends before the next one starts).
Claim_C11 ==
    Built =>
        \A i, j \in 1..Len(ranges) :
            i < j => /\ ranges[i][1] <= ranges[j][1]
                     /\ ranges[i][2] < ranges[j][1]

-----------------------------------------------------------------------------
(* An IpChecker on its own (specification SpecChecker) *)

\* The lines of a file: entries and empty lines.
LinePool == EntryPool \cup {EmptyLine}

\* The files load is given: split("\n") yields at least one line.
Files == UNION {[1..n -> LinePool] : n \in 1..MaxLines}

\* A new IpChecker: #ranges = [].
InitChecker ==
    /\ TrieIdle /\ NetIdle /\ CodecIdle /\ BuildIdle
    /\ pc = "unloaded"

\* IpChecker.load of a file; the lines read are recorded in cidrMap.
CheckerLoad(lines) ==
    /\ pc \in {"unloaded", "unloadedQueried"}
    /\ cidrMap' = lines
    /\ ranges' = load(lines)
    /\ pc' = "fileLoaded"
    /\ UNCHANGED netVars
    /\ UNCHANGED <<tree, inserted, calls, searchRes, convIn, convOut, result,
                   result2, queryArg, queryRes>>

\* IpChecker.isBlocked(ip), before or after load.
CheckerIsBlocked(ip) ==
    /\ pc \in {"unloaded", "unloadedQueried", "fileLoaded", "fileQueried"}
    /\ queryArg' = ip
    /\ queryRes' = isBlocked(ranges, ip)
    /\ pc' = IF pc \in {"unloaded", "unloadedQueried"} THEN "unloadedQueried"
             ELSE "fileQueried"
    /\ UNCHANGED netVars
    /\ UNCHANGED <<tree, inserted, calls, searchRes, convIn, convOut, cidrMap,
                   result, result2, ranges>>

NextChecker ==
    \/ \E lines \in Files : CheckerLoad(lines)
    \/ \E ip \in QueryPool : CheckerIsBlocked(ip)

SpecChecker == InitChecker /\ [][NextChecker]_vars

\* The index was never loaded, or was loaded from a file without entries.
EmptyIndex ==
    \/ pc \in {"unloaded", "unloadedQueried"}
    \/ /\ pc \in {"fileLoaded", "fileQueried"}
       /\ \A i \in 1..Len(cidrMap) : cidrMap[i] = EmptyLine

\* C12: on an index that was never loaded, or was loaded from an empty
\* source, isBlocked answers false for every address, given as text or as
\* a number, and so did the query that was made.
Thm_C12 ==
    EmptyIndex =>
        /\ \A a \in AddrSpace :
              /\ ~isBlocked(ranges, StringArg(TextOf(a)))
              /\ ~isBlocked(ranges, NumberArg(a))
        /\ pc \in {"unloadedQueried", "fileQueried"} => ~queryRes

\* C12 witness: an index loaded from a file of empty lines was queried.
Wit_C12 ==
    /\ pc = "fileQueried"
    /\ Len(cidrMap) > 0
    /\ \A i \in 1..Len(cidrMap) : cidrMap[i] = EmptyLine
    /\ Len(ranges) = 0
    /\ queryArg.kind = "string"
    /\ ~queryRes

-----------------------------------------------------------------------------
(* cidrToRange and cidrToBinaryPrefix on CIDR tokens (specification SpecCidr) *)

\* Texts after the "/": prefix lengths in range, one above IntBits, a
\* negative one, a non-numeric one and an empty one.
MaskPool ==
    {ToDecimal(n) : n \in {0, 1, IntBits - 2, IntBits}}
        \cup {ToDecimal(IntBits + 1), <<"-", "1">>, <<"z">>, <<>>}

CidrTokens == {Cidr(ip, mask) : ip \in AddressTexts, mask \in MaskPool}

InitCidr ==
    /\ TrieIdle /\ NetIdle /\ BuildIdle
    /\ convIn \in CidrTokens
    /\ convOut = <<>>
    /\ pc = "cidr"

\* cidrToRange(convIn): the function has no throw statement, and split,
\* Number, ** and the bit operators do not throw on a string.
CidrToRange ==
    /\ pc = "cidr"
    /\ convOut' = [threw |-> FALSE, value |-> cidrToRange(convIn)]
    /\ pc' = "cidrToRangeDone"
    /\ UNCHANGED netVars
    /\ UNCHANGED <<tree, inserted, calls, searchRes, convIn, cidrMap, result,
                   result2, ranges, queryArg, queryRes>>

\* cidrToBinaryPrefix(convIn): no throw statement either.
CidrToBinaryPrefix ==
    /\ pc = "cidr"
    /\ convOut' = [threw |-> FALSE, value |-> cidrToBinaryPrefix(convIn)]
    /\ pc' = "cidrToBinaryPrefixDone"
    /\ UNCHANGED netVars
    /\ UNCHANGED <<tree, inserted, calls, searchRes, convIn, cidrMap, result,
                   result2, ranges, queryArg, queryRes>>

NextCidr == CidrToRange \/ CidrToBinaryPrefix

SpecCidr == InitCidr /\ [][NextCidr]_vars

\* A decimal prefix length in 0..IntBits.
IsPrefixText(mask) ==
    /\ Len(mask) > 0
    /\ \A i \in 1..Len(mask) : IsDigit(mask[i])
    /\ DecimalValue(mask) <= IntBits

\* C13: a CIDR token whose prefix length is negative, above IntBits or not
\* a number is rejected with an error by cidrToRange and by
\* cidrToBinaryPrefix; no value is returned for it.
Claim_C13 ==
    (pc \in {"cidrToRangeDone", "cidrToBinaryPrefixDone"}
        /\ ~IsPrefixText(convIn.mask)) => convOut.threw

-----------------------------------------------------------------------------
(* Further claims about the deduplicator and the index (SpecBuild) *)

\* C14: on every loaded index and for every address, isBlocked gives the
\* same answer for the dotted-quad text a.b.c.d and for the unsigned
\* integer a*2^24 + b*2^16 + c*2^8 + d.
Claim_C14 ==
    Built =>
        \A a \in AddrSpace :
            isBlocked(ranges, StringArg(TextOf(a)))
                = isBlocked(ranges, NumberArg(a))

-----------------------------------------------------------------------------
(* Further claims about the address codec (SpecParse) *)

\* C15: for every valid dotted-quad text, ipToNumber returns the unsigned
\* integer a*2^24 + b*2^16 + c*2^8 + d, which lies in 0..2^IntBits - 1 and
\* is never negative.
Claim_C15 ==
    (pc = "ipToNumberDone" /\ IsAddressText(convIn)) =>
        /\ convOut.value = AddrValue(convIn)
        /\ convOut.value \in AddrSpace

\* No octet of the text is written with a leading zero.
NoLeadingZeros(ip) ==
    \A i \in 1..Len(ip) : Len(ip[i]) = 1 \/ ip[i][1] # "0"

\* C16: for every valid dotted-quad text x without leading zeros,
\* numberToIp(ipToNumber(x)) is x again.
Thm_C16 ==
    (pc = "roundTripDone" /\ IsAddressText(convIn) /\ NoLeadingZeros(convIn))
        => convOut.value = convIn

\* C16 witness: an address whose ipToNumber value is negative was taken
\* through the round trip and came back unchanged.
Wit_C16 ==
    /\ pc = "roundTripDone"
    /\ IsAddressText(convIn)
    /\ NoLeadingZeros(convIn)
    /\ ipToNumber(convIn) < 0
    /\ convOut.value = convIn

-----------------------------------------------------------------------------
(* rangeToCIDRs one loop iteration at a time (specification SpecRangeSteps) *)

\* The addresses the stepwise calls are made with.
StepTexts ==
    {ip \in AddressTexts : ip[2] # ToDecimal(1) /\ ip[3] # ToDecimal(1)}

\* No call of rangeToCIDRs is in progress.
InitRangeSteps ==
    /\ TrieIdle /\ NetIdle /\ BuildIdle
    /\ convIn = <<>>
    /\ convOut = <<>>
    /\ pc = "rangeIdle"

\* rangeToCIDRs(startIP, endIP) is called; lines 231-238: both addresses
\* are converted, the Error of line 235 is thrown or the empty list is
\* created.
RangeEnter(startIP, endIP) ==
    /\ pc = "rangeIdle"
    /\ convIn' = <<startIP, endIP>>
    /\ LET start == ipToNumber(startIP)
           end == ipToNumber(endIP)
       IN  /\ convOut' = [threw |-> Gt(start, end), cidrs |-> <<>>,
                          start |-> start, end |-> end]
           /\ pc' = IF Gt(start, end) THEN "rangeThrew" ELSE "rangeLoop"
    /\ UNCHANGED netVars
    /\ UNCHANGED <<tree, inserted, calls, searchRes, cidrMap, result,
                   result2, ranges, queryArg, queryRes>>

\* One iteration of the outer while loop (lines 240-264).
RangeStep ==
    /\ pc = "rangeLoop"
    /\ convOut.start <= convOut.end
    /\ LET maxSize == FindMaxSize(convOut.start, convOut.end, IntBits) + 1
       IN  convOut' = [convOut EXCEPT
                !.cidrs = Append(@, Cidr(numberToIp(convOut.start),
                                         ToDecimal(maxSize))),
                !.start = NextStart(@, maxSize)]
    /\ UNCHANGED netVars
    /\ UNCHANGED <<tree, inserted, calls, searchRes, convIn, cidrMap, result,
                   result2, ranges, queryArg, queryRes, pc>>

\* The loop condition fails and the list is returned (lines 240, 266).
RangeReturn ==
    /\ pc = "rangeLoop"
    /\ ~(convOut.start <= convOut.end)
    /\ pc' = "rangeReturned"
    /\ UNCHANGED netVars
    /\ UNCHANGED <<tree, inserted, calls, searchRes, convIn, convOut, cidrMap,
                   result, result2, ranges, queryArg, queryRes>>

NextRangeSteps ==
    \/ \E startIP, endIP \in StepTexts : RangeEnter(startIP, endIP)
    \/ RangeStep
    \/ RangeReturn

\* The function is synchronous: once called, its loop keeps running.
SpecRangeSteps ==
    InitRangeSteps /\ [][NextRangeSteps]_vars
        /\ WF_vars(RangeStep \/ RangeReturn)

InCall == pc \in {"rangeLoop", "rangeReturned", "rangeThrew"}

\* C17: for every range with start <= end, the end 255.255.255.255
\* included, a call of rangeToCIDRs comes to an end after at most
\* 2 * IntBits emitted blocks: every iteration of its loop moves start up
\* and emits one block, and the call never holds more than 2 * IntBits
\* blocks, so the loop condition fails after at most that many iterations.
Thm_C17 ==
    /\ [][(pc = "rangeLoop" /\ pc' = "rangeLoop" /\ RangeStart <= RangeEnd)
            => /\ convOut'.start > convOut.start
               /\ Len(convOut'.cidrs) = Len(convOut.cidrs) + 1]_vars
    /\ []((InCall /\ RangeStart <= RangeEnd) => Len(Emitted) <= 2 * IntBits)

\* C17 witness: a range of several blocks that ends at the last address
\* was decomposed and returned.
Wit_C17 ==
    /\ pc = "rangeReturned"
    /\ RangeStart < RangeEnd
    /\ RangeEnd = Pow2(IntBits) - 1
    /\ Len(Emitted) >= 2
    /\ convOut.start > convOut.end

-----------------------------------------------------------------------------
(* Coverage and order of the deduplicator (SpecBuild) *)

\* The entries of a list, as a set.
EntrySet(entries) == {entries[i] : i \in 1..Len(entries)}

\* C18: the deduplicator loses no coverage: every address in the range of a
\* candidate lies in the range of a surviving entry, and every discarded
\* candidate has a surviving entry whose bit-prefix is a prefix of its own.
Thm_C18 ==
    pc = "filtered" =>
        /\ CoveredBy(cidrMap) \subseteq CoveredBy(result)
        /\ \A c \in EntrySet(cidrMap) \ EntrySet(result) :
              \E k \in EntrySet(result) :
                  StartsWith(binaryPrefixOf(c), binaryPrefixOf(k))

\* C18 witness: an entry was discarded, and its addresses are covered by
\* the entries that were kept.
Wit_C18 ==
    /\ pc = "filtered"
    /\ Len(result) >= 2
    /\ Len(result) < Len(cidrMap)
    /\ CoveredBy(cidrMap) = CoveredBy(result)

-----------------------------------------------------------------------------
(* Shape of the trie (SpecTrie) *)

\* The strings spelled by the values of the nodes along the paths from
\* below `node` to a terminal node.
RECURSIVE TerminalPaths(_, _)
TerminalPaths(t, node) ==
    (IF t[node].isEnd THEN {<<>>} ELSE {})
        \cup UNION {{t[t[node].children[i].node].value \o rest :
                        rest \in TerminalPaths(t, t[node].children[i].node)} :
                    i \in 1..Len(t[node].children)}

\* C19: in every state reached by insert calls, each child is stored in its
\* parent's map under a key equal to the child's own fragment, and every
\* inserted bit-string is the concatenation of the fragments along a path
\* from the root to a terminal node.
Claim_C19 ==
    pc = "trie" =>
        /\ \A n \in 1..Len(tree) : \A i \in 1..Len(tree[n].children) :
              tree[n].children[i].key = tree[tree[n].children[i].node].value
        /\ inserted \subseteq TerminalPaths(tree, RootId)

\* The orders in which n entries can have been put into cidrMap.
Orders(n) ==
    {p \in [1..n -> 1..n] : \A i, j \in 1..n : i # j => p[i] # p[j]}

\* C20: the set the deduplicator returns depends only on the set of
\* candidate entries: the same candidates put into cidrMap in any other
\* order give the same set.
Claim_C20 ==
    pc = "filtered" =>
        \A p \in Orders(Len(cidrMap)) :
            EntrySet(filterContainedCIDRsRadix(
                        [i \in 1..Len(cidrMap) |-> cidrMap[p[i]]]))
                = EntrySet(result)

-----------------------------------------------------------------------------
(* The download script: texts of the ASN feeds *)

\* s.includes(sub)
Includes(s, sub) ==
    \E i \in 1..(Len(s) - Len(sub) + 1) : SubSeq(s, i, i + Len(sub) - 1) = sub

Lower == <<"a", "b", "c", "d", "e", "f", "g", "h", "i", "j", "k", "l", "m",
           "n", "o", "p", "q", "r", "s", "t", "u", "v", "w", "x", "y", "z">>
Upper == <<"A", "B", "C", "D", "E", "F", "G", "H", "I", "J", "K", "L", "M",
           "N", "O", "P", "Q", "R", "S", "T", "U", "V", "W", "X", "Y", "Z">>

\* c.toUpperCase() of one character
UpperChar(c) ==
    IF \E k \in 1..Len(Lower) : Lower[k] = c
    THEN Upper[CHOOSE k \in 1..Len(Lower) : Lower[k] = c]
    ELSE c

\* s.toUpperCase()
ToUpperCase(s) == [i \in 1..Len(s) |-> UpperChar(s[i])]

\* \w of a regular expression
IsWordChar(c) ==
    \/ \E k \in 1..Len(Upper) : Upper[k] = c \/ Lower[k] = c
    \/ IsDigit(c)
    \/ c = "_"

\* The alternatives of the suffix expression of normalizeASName that are
\* plain words, in the order of the expression.  The alternatives left out
\* (S\.A\., S\.A, SP\.?\s*Z\s*O\.?\s*O\.?, SPÓŁKA, Z\s*O\s*O) need a ".", a
\* "Z" or a non-ASCII letter to match.
Suffixes ==
    << <<"L", "L", "C">>, <<"G", "M", "B", "H">>, <<"I", "N", "C">>,
       <<"L", "T", "D">>, <<"S", "P", "O", "L", "K", "A">>,
       <<"C", "O", "R", "P">>, <<"C", "O", "M", "P", "A", "N", "Y">>,
       <<"L", "I", "M", "I", "T", "E", "D">>, <<"P", "L", "C">>,
       <<"A", "G">>, <<"B", "V">>, <<"S", "R", "L">>, <<"S", "A", "S">>,
       <<"S", "A">>, <<"A", "B">>, <<"A", "S">>, <<"N", "V">>, <<"O", "Y">>,
       <<"K", "G">>, <<"K", "F", "T">>, <<"O", "O", "O">>, <<"C", "O">>,
       <<"O", "N", "L", "I", "N", "E">> >>

\* Length of the first alternative that matches s at j, ignoring case, and
\* is followed by a word boundary (\b); 0 when none does.
AltAt(s, j) ==
    LET fits(k) ==
            /\ j + Len(Suffixes[k]) - 1 <= Len(s)
            /\ ToUpperCase(SubSeq(s, j, j + Len(Suffixes[k]) - 1))
                  = Suffixes[k]
            /\ \/ j + Len(Suffixes[k]) > Len(s)
               \/ ~IsWordChar(s[j + Len(Suffixes[k])])
        hits == {k \in 1..Len(Suffixes) : fits(k)}
    IN  IF hits = {} THEN 0
        ELSE Len(Suffixes[CHOOSE k \in hits : \A h \in hits : k <= h])

\* Number of spaces of s from position i on.
RECURSIVE SpaceRun(_, _)
SpaceRun(s, i) ==
    IF i <= Len(s) /\ s[i] = " " THEN 1 + SpaceRun(s, i + 1) ELSE 0

\* Length of the match of (\,\s*|\s+)?(...)\b at position i of a text
\* without commas; 0 when there is none.
MatchAt(s, i) ==
    LET ws == SpaceRun(s, i)
        alt == AltAt(s, i + ws)
    IN  IF alt = 0 THEN 0 ELSE ws + alt

\* s.replace(/(\,\s*|\s+)?(...)\b/gi, "") from position i on.
RECURSIVE RemoveSuffixes(_, _)
RemoveSuffixes(s, i) ==
    IF i > Len(s) THEN <<>>
    ELSE IF MatchAt(s, i) > 0 THEN RemoveSuffixes(s, i + MatchAt(s, i))
    ELSE <<s[i]>> \o RemoveSuffixes(s, i + 1)

\* s.replace(/\s+/g, " ") from position i on.
RECURSIVE CollapseSpaces(_, _)
CollapseSpaces(s, i) ==
    IF i > Len(s) THEN <<>>
    ELSE IF s[i] = " " THEN <<" ">> \o CollapseSpaces(s, i + SpaceRun(s, i))
    ELSE <<s[i]>> \o CollapseSpaces(s, i + 1)

\* s.trim()
RECURSIVE Trim(_)
Trim(s) ==
    IF Len(s) > 0 /\ s[1] = " " THEN Trim(Tail(s))
    ELSE IF Len(s) > 0 /\ s[Len(s)] = " " THEN Trim(SubSeq(s, 1, Len(s) - 1))
    ELSE s

\* CIDRProcessor.normalizeASName
normalizeASName(name) ==
    IF Len(name) = 0 THEN <<>>
    ELSE IF Includes(name, <<"P", "A", "C", "K", "E", "T", "H", "U", "B">>)
    THEN <<"P", "A", "C", "K", "E", "T", "H", "U", "B">>
    ELSE IF Includes(name, <<"V", "U", "L", "T", "R">>)
    THEN <<"V", "U", "L", "T", "R">>
    ELSE LET spaced == [i \in 1..Len(name) |->
                          IF name[i] \in {",", "-"} THEN " " ELSE name[i]]
         IN  ToUpperCase(Trim(CollapseSpaces(RemoveSuffixes(spaced, 1), 1)))

-----------------------------------------------------------------------------
(* The download script: fetchWithRetry and processUrl *)

RETRY_ATTEMPTS == 3

\* The feeds, each named by the part of its url the script tests for.
urls == <<"X4BNet", "NullifiedCode", "iptoasn.com", "firehol">>

\* What one fetch attempt can come to: a response with ok set, a response
\* with ok not set, a rejected fetch.
AttemptOutcomes == {"ok", "status", "network"}

\* The test of line 396 written attempt > RETRY_ATTEMPTS.
GivesUpLate(attempt) == attempt > RETRY_ATTEMPTS

\* attempt >= RETRY_ATTEMPTS (line 396): the error is thrown again.
GivesUp(attempt) == attempt >= RETRY_ATTEMPTS

\* fetchWithRetry(url, attempt), given what each attempt comes to: the
\* response is returned, or the error of the last attempt is thrown.
RECURSIVE fetchWithRetry(_, _)
fetchWithRetry(outcomes, attempt) ==
    IF outcomes[attempt] = "ok"
    THEN [threw |-> FALSE, attempts |-> attempt, error |-> "none"]
    ELSE IF GivesUp(attempt)
    THEN [threw |-> TRUE, attempts |-> attempt, error |-> outcomes[attempt]]
    ELSE fetchWithRetry(outcomes, attempt + 1)

\* x >> k
Sar(x, k) == ToInt(x) \div Pow2(k)

\* CIDRProcessor.u32ToIP
u32ToIP(n) ==
    << ToDecimal(UShr(n, 3 * OctetBits)),
       ToDecimal(BitAnd(Sar(n, 2 * OctetBits), OctetMax)),
       ToDecimal(BitAnd(Sar(n, OctetBits), OctetMax)),
       ToDecimal(BitAnd(n, OctetMax)) >>

\* this.cidrMap.set(key, true) for each key in turn.
RECURSIVE SetKeys(_, _)
SetKeys(map, keys) ==
    IF Len(keys) = 0 THEN map
    ELSE SetKeys(IF \E i \in 1..Len(map) : map[i] = Head(keys)
                 THEN map ELSE Append(map, Head(keys)),
                 Tail(keys))

\* The iptoasn branch (lines 428-457) on one line, split at the tabs into
\* start, end, asn and asname (the country is not used).
IptoasnLine(st, line) ==
    LET normAsname == normalizeASName(line.asname)
        asnameMatch ==
            /\ Len(normAsname) > 0
            /\ st.asnameSet # {}
            /\ \E ref \in st.asnameSet :
                  Includes(normAsname, ref) \/ Includes(ref, normAsname)
    IN  IF line.asn \in st.asnSet \/ asnameMatch
        THEN LET r == rangeToCIDRs(u32ToIP(Number(line.start)),
                                   u32ToIP(Number(line.end)))
             IN  IF r.threw THEN [st |-> st, threw |-> TRUE]
                 ELSE [st |-> [st EXCEPT !.cidrMap = SetKeys(@, r.cidrs)],
                       threw |-> FALSE]
        ELSE [st |-> st, threw |-> FALSE]

\* Position of the first space of s, 0 when it has none.
FirstSpace(s) ==
    IF \E i \in 1..Len(s) : s[i] = " "
    THEN CHOOSE i \in 1..Len(s) : s[i] = " " /\ \A j \in 1..(i - 1) : s[j] # " "
    ELSE 0

\* The ASN list branch (lines 458-469) on one trimmed line.
AsnLine(st, line) ==
    IF StartsWith(line, <<"A", "S">>)
    THEN LET sp == FirstSpace(line)
             as == IF sp = 0 THEN line ELSE SubSeq(line, 1, sp - 1)
             asnameRaw == IF sp = 0 THEN <<>>
                          ELSE Trim(SubSeq(line, sp + 1, Len(line)))
             norm == normalizeASName(asnameRaw)
         IN  [st EXCEPT
                !.asnSet = @ \cup {SubSeq(as, 3, Len(as))},
                !.asnameSet = IF Len(asnameRaw) > 0 /\ Len(norm) > 0
                              THEN @ \cup {norm} ELSE @]
    ELSE st

\* !trimmedLine || trimmedLine.startsWith("#") for a line of text.
SkippedText(line) == Len(line) = 0 \/ line[1] = "#"

\* The same for a line held as an entry: the empty line and "#".
CommentLine == Cidr(<<<<"#">>>>, NoMask)
SkippedEntry(line) == line = EmptyLine \/ line = CommentLine

\* The for await loop of processUrl (lines 423-473) from line i on: the
\* state of the processor afterwards and whether an error was thrown.
RECURSIVE LineLoop(_, _, _, _)
LineLoop(url, st, lines, i) ==
    IF i > Len(lines) THEN [st |-> st, threw |-> FALSE]
    ELSE IF url = "iptoasn.com"
    THEN LET r == IptoasnLine(st, lines[i])
         IN  IF r.threw THEN r ELSE LineLoop(url, r.st, lines, i + 1)
    ELSE IF url = "NullifiedCode"
    THEN LineLoop(url,
                  IF SkippedText(Trim(lines[i])) THEN st
                  ELSE AsnLine(st, Trim(lines[i])),
                  lines, i + 1)
    ELSE LineLoop(url,
                  IF SkippedEntry(lines[i]) THEN st
                  ELSE [st EXCEPT !.cidrMap = SetKeys(@, <<lines[i]>>)],
                  lines, i + 1)

\* processUrl(url), given what the fetch attempts come to and what the
\* response body delivers (its lines, and whether the stream then breaks):
\* the state of the processor afterwards, and whether the try block ran to
\* its end.  The catch of lines 480-488 logs the error and returns.
processUrl(url, st, outcomes, body) ==
    IF fetchWithRetry(outcomes, 1).threw
    THEN [st |-> st, completed |-> FALSE]
    ELSE LET r == LineLoop(url, st, body.lines, 1)
         IN  [st |-> r.st, completed |-> ~r.threw /\ ~body.broken]

-----------------------------------------------------------------------------
(* The download script: process() (specification SpecProcess) *)

\* What the attempts of one fetchWithRetry call come to: success at once,
\* success on the second and on the last attempt, failure of every attempt.
OutcomeRuns ==
    { <<"ok", "ok", "ok">>, <<"network", "ok", "ok">>,
      <<"status", "network", "ok">>, <<"network", "network", "status">> }

\* Lines of the ASN list: "AS1", "AS2 VULTR", "AS3 Acme, LLC" and a comment.
AsnLinePool ==
    { <<"A", "S", "1">>,
      <<"A", "S", "2", " ", "V", "U", "L", "T", "R">>,
      <<"A", "S", "3", " ", "A", "c", "m", "e", ",", " ", "L", "L", "C">>,
      <<"#", " ", "A", "S", "4">> }

\* A line of the iptoasn feed.
AsnRange(start, end, asn, asname) ==
    [start |-> ToDecimal(start), end |-> ToDecimal(end), asn |-> asn,
     asname |-> asname]

\* Lines of the iptoasn feed: a range of AS1, a range of AS9 whose name holds
\* "VULTR", a range of AS1 from the last address below 2^(IntBits-1) to the
\* first one above, a range of AS8 named "OTHER".
IptoasnLinePool ==
    { AsnRange(Pow2(IntBits - 3), Pow2(IntBits - 3) + 3, <<"1">>,
               <<"A", "C", "M", "E">>),
      AsnRange(Pow2(IntBits - 2), Pow2(IntBits - 2) + 7, <<"9">>,
               <<"A", "S", "-", "V", "U", "L", "T", "R", "-", "X">>),
      AsnRange(Pow2(IntBits - 1) - 1, Pow2(IntBits - 1), <<"1">>,
               <<"A", "C", "M", "E">>),
      AsnRange(1, 2, <<"8">>, <<"O", "T", "H", "E", "R">>) }

\* Lines of the two plain feeds.
PlainLinePool(url) ==
    IF url = "X4BNet"
    THEN {Cidr(Quad(0, 2, 0, 0), ToDecimal(IntBits - 2)), CommentLine}
    ELSE {Cidr(Quad(0, 2, 0, 1), NoMask), EmptyLine}

LinePoolOf(url) ==
    IF url = "NullifiedCode" THEN AsnLinePool
    ELSE IF url = "iptoasn.com" THEN IptoasnLinePool
    ELSE PlainLinePool(url)

\* What a response body delivers: up to MaxFeedLines lines, and then the
\* end of the stream or an error.
Bodies(url) ==
    {[lines |-> ls, broken |-> b] :
        ls \in UNION {[1..n -> LinePoolOf(url)] : n \in 0..MaxFeedLines},
        b \in BOOLEAN}

\* The urls of line 566, in the order of `urls`.
otherUrls == SelectSeq(urls, LAMBDA url : url # "NullifiedCode")

ProcessorState == [asnSet |-> asnSet, asnameSet |-> asnameSet,
                   cidrMap |-> cidrMap]

\* new CIDRProcessor(), before process().
InitProcess ==
    /\ TrieIdle /\ NetIdle /\ CodecIdle /\ BuildIdle
    /\ pc = "start"

\* One processUrl(url) call, from its first line to its return.
RunProcessUrl(url, outcomes, body) ==
    \E r \in {processUrl(url, ProcessorState, outcomes, body)} :
        /\ asnSet' = r.st.asnSet
        /\ asnameSet' = r.st.asnameSet
        /\ cidrMap' = r.st.cidrMap
        /\ feeds' = feeds \cup {[url |-> url, completed |-> r.completed]}

\* process(), lines 559-565: the ASN list is processed first.
ProcessAsnUrl(outcomes, body) ==
    /\ pc = "start"
    /\ RunProcessUrl("NullifiedCode", outcomes, body)
    /\ pc' = "others"
    /\ UNCHANGED <<tree, inserted, calls, searchRes, convIn, convOut, result,
                   result2, ranges, queryArg, queryRes, fetchLog, written>>

\* process(), lines 567-568: the other urls are processed under
\* Promise.all, in the order their responses are served.
ProcessOtherUrl(url, outcomes, body) ==
    /\ pc = "others"
    /\ \A f \in feeds : f.url # url
    /\ RunProcessUrl(url, outcomes, body)
    /\ UNCHANGED <<tree, inserted, calls, searchRes, convIn, convOut, result,
                   result2, ranges, queryArg, queryRes, fetchLog, written, pc>>

\* process(), lines 570-571: every processUrl has returned; the set is
\* filtered and the file is written.
WriteFile ==
    /\ pc = "others"
    /\ \A i \in 1..Len(otherUrls) : \E f \in feeds : f.url = otherUrls[i]
    /\ result' = filterContainedCIDRsRadix(cidrMap)
    /\ written' = TRUE
    /\ pc' = "saved"
    /\ UNCHANGED <<tree, inserted, calls, searchRes, convIn, convOut, cidrMap,
                   result2, ranges, queryArg, queryRes, asnSet, asnameSet,
                   feeds, fetchLog>>

NextProcess ==
    \/ \E outcomes \in OutcomeRuns, body \in Bodies("NullifiedCode") :
          ProcessAsnUrl(outcomes, body)
    \/ \E i \in 1..Len(otherUrls) :
          \E outcomes \in OutcomeRuns, body \in Bodies(otherUrls[i]) :
              ProcessOtherUrl(otherUrls[i], outcomes, body)
    \/ WriteFile

SpecProcess == InitProcess /\ [][NextProcess]_vars

\* C21: a build is all-or-nothing: when the output file is written, the
\* try block of every processUrl call ran to its end (no feed was skipped
\* after its fetch failed, none was cut short by a stream error or by an
\* error raised while a range was decomposed).
Claim_C21 ==
    written => \A f \in feeds : f.completed

-----------------------------------------------------------------------------
(* fetchWithRetry one attempt at a time (specification SpecFetch) *)

\* No fetchWithRetry call is in progress.
InitFetch ==
    /\ TrieIdle /\ NetIdle /\ CodecIdle /\ BuildIdle
    /\ pc = "fetchIdle"

\* fetchWithRetry(url) is called: attempt = 1.
FetchCall(url) ==
    /\ pc = "fetchIdle"
    /\ convIn' = url
    /\ fetchLog' = <<>>
    /\ pc' = "fetching"
    /\ UNCHANGED <<tree, inserted, calls, searchRes, convOut, cidrMap, result,
                   result2, ranges, queryArg, queryRes, asnSet, asnameSet,
                   feeds, written>>

\* The fetch of the current attempt settles (lines 390-396): the response
\* is returned, the error is thrown again, or a retry is announced.
FetchAttempt(outcome) ==
    /\ pc = "fetching"
    /\ fetchLog' = Append(fetchLog, outcome)
    /\ LET attempt == Len(fetchLog) + 1
       IN  IF outcome = "ok"
           THEN /\ convOut' = [threw |-> FALSE, attempts |-> attempt,
                               error |-> "none"]
                /\ pc' = "fetchReturned"
           ELSE IF GivesUp(attempt)
           THEN /\ convOut' = [threw |-> TRUE, attempts |-> attempt,
                               error |-> outcome]
                /\ pc' = "fetchThrew"
           ELSE /\ convOut' = convOut
                /\ pc' = "retryDelay"
    /\ UNCHANGED <<tree, inserted, calls, searchRes, convIn, cidrMap, result,
                   result2, ranges, queryArg, queryRes, asnSet, asnameSet,
                   feeds, written>>

\* The timer of line 398 fires and fetchWithRetry(url, attempt + 1) runs
\* (line 399).
RetryDelay ==
    /\ pc = "retryDelay"
    /\ pc' = "fetching"
    /\ UNCHANGED <<tree, inserted, calls, searchRes, convIn, convOut, cidrMap,
                   result, result2, ranges, queryArg, queryRes, netVars>>

NextFetch ==
    \/ \E i \in 1..Len(urls) : FetchCall(urls[i])
    \/ \E outcome \in AttemptOutcomes : FetchAttempt(outcome)
    \/ RetryDelay

\* Every fetch settles and every timer fires.
SpecFetch ==
    InitFetch /\ [][NextFetch]_vars
        /\ WF_vars(\E outcome \in AttemptOutcomes : FetchAttempt(outcome))
        /\ WF_vars(RetryDelay)

FetchDone == pc \in {"fetchReturned", "fetchThrew"}

\* C22: a fetchWithRetry call makes at most RETRY_ATTEMPTS attempts; it
\* returns at the first ok response, retries after a failed attempt while
\* fewer than RETRY_ATTEMPTS were made, throws the error of the last attempt
\* after RETRY_ATTEMPTS failures, and always comes to an end.
Thm_C22 ==
    /\ [](Len(fetchLog) <= RETRY_ATTEMPTS)
    /\ [](pc = "fetchReturned" =>
            /\ fetchLog[Len(fetchLog)] = "ok"
            /\ \A i \in 1..(Len(fetchLog) - 1) : fetchLog[i] # "ok"
            /\ ~convOut.threw)
    /\ [](pc = "retryDelay" =>
            /\ Len(fetchLog) < RETRY_ATTEMPTS
            /\ \A i \in 1..Len(fetchLog) : fetchLog[i] # "ok")
    /\ [](pc = "fetchThrew" =>
            /\ Len(fetchLog) = RETRY_ATTEMPTS
            /\ \A i \in 1..Len(fetchLog) : fetchLog[i] # "ok"
            /\ convOut.threw
            /\ convOut.error = fetchLog[RETRY_ATTEMPTS])
    /\ [](FetchDone => convOut = fetchWithRetry(fetchLog, 1))
    /\ (pc = "fetching") ~> FetchDone

\* C22 witness: a call that failed twice returned the response of its third
\* attempt.
Wit_C22 ==
    /\ pc = "fetchReturned"
    /\ Len(fetchLog) = RETRY_ATTEMPTS
    /\ fetchLog[1] = "network"
    /\ fetchLog[2] = "status"
    /\ convOut.attempts = RETRY_ATTEMPTS

-----------------------------------------------------------------------------
\* The keys of the candidate collection.
CandidateKeys(map) == {map[i] : i \in 1..Len(map)}

\* The blocks the range of an iptoasn line decomposes into.
BlocksOfLine(line) ==
    LET r == rangeToCIDRs(u32ToIP(Number(line.start)),
                          u32ToIP(Number(line.end)))
    IN  IF r.threw THEN {} ELSE {r.cidrs[i] : i \in 1..Len(r.cidrs)}

\* C23: a range of the iptoasn feed is added to the candidate collection
\* only if its ASN is in the ASN set: every key the processUrl call of the
\* iptoasn feed adds is a block of a range whose ASN the ASN list named.
Claim_C23 ==
    [][(\E f \in feeds' \ feeds : f.url = "iptoasn.com") =>
          \A key \in CandidateKeys(cidrMap') \ CandidateKeys(cidrMap) :
             \E line \in IptoasnLinePool :
                /\ line.asn \in asnSet
                /\ key \in BlocksOfLine(line)]_vars

-----------------------------------------------------------------------------
\* C24: lookup stays correct on a set that is not minimal: when the index
\* is loaded from a set that may hold entries nested in other entries,
\* isBlocked(a) is true exactly for the addresses a inside the range of some
\* entry of that set.
Claim_C24 ==
    pc = "loadedRaw" =>
        \A a \in AddrSpace :
            isBlocked(ranges, StringArg(TextOf(a))) <=> a \in CoveredBy(cidrMap)

-----------------------------------------------------------------------------
\* The place at which an entry was inserted into the candidate collection.
InsertedAt(entry) == CHOOSE i \in 1..Len(cidrMap) : cidrMap[i] = entry

\* C25 as stated: the surviving entries are emitted in ascending prefix
\* length, a bare address counting as full length, and entries of equal
\* prefix length in the order in which they were inserted.
Claim_C25 ==
    pc = "filtered" =>
        \A i, j \in 1..Len(result) :
            i < j =>
                /\ PrefixLen(result[i]) <= PrefixLen(result[j])
                /\ PrefixLen(result[i]) = PrefixLen(result[j]) =>
                      InsertedAt(result[i]) < InsertedAt(result[j])

\* C25 amended: the surviving entries written with a prefix length are
\* emitted first, in ascending prefix length, and the surviving bare
\* addresses after all of them; entries of equal prefix length written the
\* same way appear in the order in which they were inserted.
Thm_C25 ==
    pc = "filtered" =>
        \A i, j \in 1..Len(result) :
            i < j =>
                /\ IsCidr(result[j]) => IsCidr(result[i])
                /\ PrefixLen(result[i]) <= PrefixLen(result[j])
                /\ (/\ IsCidr(result[i]) = IsCidr(result[j])
                    /\ PrefixLen(result[i]) = PrefixLen(result[j])) =>
                      InsertedAt(result[i]) < InsertedAt(result[j])

\* C25 witness: three entries survived, a bare address that was inserted
\* first among them, a block of full prefix length and another block.
Wit_C25 ==
    /\ pc = "filtered"
    /\ Len(result) = 3
    /\ ~IsCidr(cidrMap[1])
    /\ result[3] = cidrMap[1]
    /\ \E i \in 1..2 : IsCidr(result[i]) /\ PrefixLen(result[i]) = IntBits

=============================================================================
